---- MODULE Spec2Model ----
(***************************************************************************)
(* Text-to-SQL generation pipeline (generateSqlFromQuestion, in its tagged *)
(* and its older untagged version), the SQL validator, and the two         *)
(* background jobs runSchemaSync and runQueryLogSync, with the database    *)
(* connection pool and the two vector indexes they share.                  *)
(*                                                                         *)
(* Text is a sequence of one-character strings, so that toLowerCase,       *)
(* includes, trim, match and replace are computed character by character.  *)
(* One action is one stretch of code between two awaits: the code between  *)
(* awaits runs to completion on the single JavaScript thread.              *)
(***************************************************************************)
EXTENDS Integers, Sequences, FiniteSets, TLC

(***************************************************************************)
(* Bounds of the model.                                                    *)
(***************************************************************************)
\* number of fragments a completion of the model is made of (SpecPipeline)
MaxFrags == 3
\* number of words, keywords and white-space characters a candidate query
\* is made of (SpecValidator)
MaxWords == 5
\* number of tables the database has / of statements in pg_stat_statements
NumTables == 2
NumQueries == 2
\* number of times the scheduler starts a job (SpecSchemaSync, SpecQueryLog)
MaxRuns == 2
\* number of names, commas and blanks the answer of the re-rank call is
\* made of (SpecRerank)
MaxNames == 3

(***************************************************************************)
(* Text.                                                                   *)
(***************************************************************************)
SP == " "
NL == "\n"
TAB == "\t"

RECURSIVE Flatten(_)
Flatten(ss) == IF ss = <<>> THEN <<>> ELSE Head(ss) \o Flatten(Tail(ss))

UpperAlpha == <<"A","B","C","D","E","F","G","H","I","J","K","L","M",
                "N","O","P","Q","R","S","T","U","V","W","X","Y","Z">>
LowerAlpha == <<"a","b","c","d","e","f","g","h","i","j","k","l","m",
                "n","o","p","q","r","s","t","u","v","w","x","y","z">>

\* String.prototype.toLowerCase
LowerOf == [c \in {UpperAlpha[i] : i \in 1..Len(UpperAlpha)} |->
               LowerAlpha[CHOOSE i \in 1..Len(UpperAlpha) : UpperAlpha[i] = c]]
LowerChar(c) == IF c \in DOMAIN LowerOf THEN LowerOf[c] ELSE c
RECURSIVE toLowerCase(_)
toLowerCase(s) ==
    IF s = <<>> THEN <<>> ELSE <<LowerChar(Head(s))>> \o toLowerCase(Tail(s))

\* sub occurs in s at position i
OccursAt(s, sub, i) ==
    /\ i >= 1
    /\ i + Len(sub) - 1 <= Len(s)
    /\ \A j \in 1..Len(sub) : s[i + j - 1] = sub[j]
\* String.prototype.indexOf, counted from 1: 0 when sub does not occur
RECURSIVE IndexFrom(_, _, _)
IndexFrom(s, sub, i) ==
    IF i + Len(sub) - 1 > Len(s) THEN 0
    ELSE IF OccursAt(s, sub, i) THEN i
    ELSE IndexFrom(s, sub, i + 1)
IndexOf(s, sub) == IndexFrom(s, sub, 1)
\* String.prototype.includes
includes(s, sub) == IndexOf(s, sub) # 0

\* String.prototype.trim: white space and line terminators at both ends
IsWhiteSpace(c) == c \in {SP, TAB, NL, "\r"}
RECURSIVE TrimStart(_)
TrimStart(s) ==
    IF s # <<>> /\ IsWhiteSpace(Head(s)) THEN TrimStart(Tail(s)) ELSE s
RECURSIVE TrimEnd(_)
TrimEnd(s) ==
    IF s # <<>> /\ IsWhiteSpace(s[Len(s)])
    THEN TrimEnd(SubSeq(s, 1, Len(s) - 1))
    ELSE s
trim(s) == TrimEnd(TrimStart(s))

(***************************************************************************)
(* validateSqlSyntax: the keyword gate.                                    *)
(***************************************************************************)
forbiddenKeywords ==
    << <<"i","n","s","e","r","t">>,
       <<"u","p","d","a","t","e">>,
       <<"d","e","l","e","t","e">>,
       <<"d","r","o","p">>,
       <<"c","r","e","a","t","e">>,
       <<"a","l","t","e","r">>,
       <<"t","r","u","n","c","a","t","e">>,
       <<"g","r","a","n","t">>,
       <<"r","e","v","o","k","e">> >>

\* the delimiter the gate's template literal puts on both sides of a keyword
GateDelimiter == {SP}

\* the gate without sqlQuery.toLowerCase()
HasForbiddenKeywordCaseSensitive(sqlQuery) ==
    \E k \in 1..Len(forbiddenKeywords) :
        \E a \in GateDelimiter, b \in GateDelimiter :
            includes(sqlQuery, <<a>> \o forbiddenKeywords[k] \o <<b>>)

\* forbiddenKeywords.some(keyword => normalizedSql.includes(' ' + keyword + ' '))
HasForbiddenKeyword(sqlQuery) ==
    LET normalizedSql == toLowerCase(sqlQuery)
    IN  \E k \in 1..Len(forbiddenKeywords) :
            \E a \in GateDelimiter, b \in GateDelimiter :
                includes(normalizedSql, <<a>> \o forbiddenKeywords[k] \o <<b>>)

KeywordError == "Query contains a forbidden write-operation keyword."

(***************************************************************************)
(* The response parser of the tagged version, and the clean-up of the      *)
(* untagged version.                                                       *)
(***************************************************************************)
QueryTag == <<"<","@","q","u","e","r","y","@",">">>
ExplanationTag == <<"<","@","e","x","p","l","a","n","a","t","i","o","n","@",">">>
\* the backquote character, which a TLA+ string cannot hold
BQ == "BQ"
Fence == <<BQ, BQ, BQ>>
FenceSql == <<BQ, BQ, BQ, "s", "q", "l">>

\* finalResponse.match(/<tag>([\s\S]*)/): null, or the text after the first tag
Match(s, tag) ==
    LET at == IndexOf(s, tag)
    IN  IF at # 0
        THEN [found |-> TRUE, group1 |-> SubSeq(s, at + Len(tag), Len(s))]
        ELSE [found |-> FALSE, group1 |-> <<>>]

\* a match object is truthy, null is not; a string is truthy unless it is empty
TruthyAlways(m) == m.found
Truthy(m) == m.found /\ m.group1 # <<>>

\* the if / else if / else over queryMatch and explanationMatch
ParseResponse(finalResponse) ==
    LET queryMatch == Match(finalResponse, QueryTag)
        explanationMatch == Match(finalResponse, ExplanationTag)
    IN  IF Truthy(queryMatch)
        THEN [state |-> "QUERY_FOUND", text |-> trim(queryMatch.group1)]
        ELSE IF Truthy(explanationMatch)
        THEN [state |-> "EXPLANATION_FOUND", text |-> trim(explanationMatch.group1)]
        ELSE [state |-> "MALFORMED", text |-> <<>>]

\* finalResponse.replace(/FENCEsql|FENCE/g, ''), FENCE being three backquotes
RECURSIVE RemoveFences(_)
RemoveFences(s) ==
    IF s = <<>> THEN <<>>
    ELSE IF OccursAt(s, FenceSql, 1)
    THEN RemoveFences(SubSeq(s, Len(FenceSql) + 1, Len(s)))
    ELSE IF OccursAt(s, Fence, 1)
    THEN RemoveFences(SubSeq(s, Len(Fence) + 1, Len(s)))
    ELSE <<Head(s)>> \o RemoveFences(Tail(s))
CleanResponse(finalResponse) == trim(RemoveFences(finalResponse))

(***************************************************************************)
(* Completions of the language model: texts made of a few fragments.       *)
(***************************************************************************)
Fragments ==
    { <<SP>>, <<NL>>,
      <<"d","r","o","p">>, <<"D","r","O","p">>,
      <<"s","q","l">>,
      QueryTag, ExplanationTag, Fence }
FragSeqs(n) == UNION {[1..k -> Fragments] : k \in 0..n}
Responses == {Flatten(fs) : fs \in FragSeqs(MaxFrags)}

\* completions that carry a candidate query: words, keywords in mixed case
\* and white space, behind the query tag or bare
QueryFragments == { <<SP>>, <<NL>>, <<"D","r","O","p">>, <<"s","q","l">> }
Candidates ==
    {Flatten(fs) : fs \in UNION {[1..k -> QueryFragments] : k \in 0..MaxWords}}
QueryResponses == {h \o c : h \in {<<>>, QueryTag}, c \in Candidates}

\* one completion of each kind, for the runs in which the jobs run as well
SystemResponses ==
    { QueryTag \o <<"s","q","l">>,
      QueryTag \o <<"s","q","l",SP,"d","r","o","p",SP,"s","q","l">>,
      ExplanationTag \o <<"s","q","l">>,
      <<"s","q","l">> }

(***************************************************************************)
(* The tables of the database, the curated metadata file, the answers of   *)
(* the model about them.                                                   *)
(***************************************************************************)
Digit == <<"1","2","3","4","5","6","7","8","9">>

\* the rows of getDatabaseSchema: { name: tableName, schema: ....join(', ') }
TableName(i) == <<"t", Digit[i]>>
ColumnSchema(i) == <<"c", Digit[i], SP, "t","e","x","t">>
TableNames == {TableName(i) : i \in 1..NumTables}
UnknownName == <<"t", "0">>

\* llm.invoke(prompt) at temperature 0, then summary.trim(): one answer per
\* prompt, the prompt being told by the text it is built around
Summary(text) == <<"a","b","o","u","t",SP>> \o text

\* what an entry of table-standard.json can hold: any of tier, domain and
\* a summary written by hand, or a tier that is the empty string
Restrict(f, keys) == [k \in keys |-> f[k]]
CuratedEntries ==
    { Restrict(e, keys) :
        e \in [tier : {"GOLD"}, domain : {"Sales"},
               summary : {<<"c","u","r","a","t","e","d">>}],
        keys \in SUBSET {"tier", "domain", "summary"} }
    \cup {[tier |-> ""]}
\* the file that describes the first table only, as { tier: 'GOLD' }
DefaultMetadataFile == [n \in {TableName(1)} |-> [tier |-> "GOLD"]]
\* JSON.parse(fileContent): an entry for every table, for the first one
\* only, or for none
MetadataFiles == [TableNames -> CuratedEntries] \cup {DefaultMetadataFile, <<>>}

\* { ...table, ...(tableMetadata[table.name] || {}) }
MergeIntrospectedWins(table, entry) ==
    [k \in DOMAIN table \cup DOMAIN entry |->
        IF k \in DOMAIN table THEN table[k] ELSE entry[k]]
Merge(table, entry) ==
    [k \in DOMAIN table \cup DOMAIN entry |->
        IF k \in DOMAIN entry THEN entry[k] ELSE table[k]]
EntryOf(file, name) == IF name \in DOMAIN file THEN file[name] ELSE <<>>

\* table.tier || 'IRON': the field when it is there and not the empty string
OrElseUnset(table, key, default) ==
    IF key \in DOMAIN table THEN table[key] ELSE ""
OrElse(table, key, default) ==
    IF key \in DOMAIN table /\ table[key] # "" THEN table[key] ELSE default

\* metadata: { name, summary, schema, tier: ... || 'IRON', domain: ... || 'IRON' }
TableMetadata(table) ==
    [name |-> table["name"], summary |-> table["summary"],
     schema |-> table["schema"],
     tier |-> OrElse(table, "tier", "IRON"),
     domain |-> OrElse(table, "domain", "IRON")]

(***************************************************************************)
(* sanitizeQueries: four String.prototype.replace calls with the patterns  *)
(*   /WHERE\s+\S+\s*=\s*'.*?'/g   /AND\s+\S+\s*=\s*'.*?'/g                 *)
(*   /WHERE\s+\S+\s*=\s*\d+/g     /AND\s+\S+\s*=\s*\d+/g                   *)
(* matched as the regular-expression engine matches them: leftmost, the    *)
(* greedy quantifiers giving back, the lazy one stopping at the first      *)
(* quote, the dot not matching a line terminator.                          *)
(***************************************************************************)
WHERE == <<"W","H","E","R","E">>
AND == <<"A","N","D">>
QUOTE == "'"
IsDigit(c) == c \in {"0","1","2","3","4","5","6","7","8","9"}
LineTerminators == {NL, "\r"}

\* the position behind the run of \s, of \S and of \d that starts at i
RECURSIVE SkipSpace(_, _)
SkipSpace(s, i) ==
    IF i <= Len(s) /\ IsWhiteSpace(s[i]) THEN SkipSpace(s, i + 1) ELSE i
RECURSIVE SkipNonSpace(_, _)
SkipNonSpace(s, i) ==
    IF i <= Len(s) /\ ~IsWhiteSpace(s[i]) THEN SkipNonSpace(s, i + 1) ELSE i
RECURSIVE SkipDigits(_, _)
SkipDigits(s, i) ==
    IF i <= Len(s) /\ IsDigit(s[i]) THEN SkipDigits(s, i + 1) ELSE i

\* .*?' from i: the position behind the first quote on the line, 0 if none
RECURSIVE ClosingQuote(_, _)
ClosingQuote(s, i) ==
    IF i > Len(s) \/ s[i] \in LineTerminators THEN 0
    ELSE IF s[i] = QUOTE THEN i + 1
    ELSE ClosingQuote(s, i + 1)

\* '.*?' or \d+ at i: the position behind it, 0 if it does not match
LiteralEnd(kind, s, i) ==
    IF kind = "quoted"
    THEN IF i <= Len(s) /\ s[i] = QUOTE THEN ClosingQuote(s, i + 1) ELSE 0
    ELSE IF SkipDigits(s, i) > i THEN SkipDigits(s, i) ELSE 0

\* \s*=\s* and the literal, from i
ComparisonEnd(kind, s, i) ==
    LET e == SkipSpace(s, i)
    IN  IF e <= Len(s) /\ s[e] = "="
        THEN LiteralEnd(kind, s, SkipSpace(s, e + 1))
        ELSE 0

\* \S+ is s[i..e-1] or, giving back, a shorter prefix of it
RECURSIVE OperandEnd(_, _, _, _)
OperandEnd(kind, s, i, e) ==
    IF e <= i THEN 0
    ELSE IF ComparisonEnd(kind, s, e) > 0 THEN ComparisonEnd(kind, s, e)
    ELSE OperandEnd(kind, s, i, e - 1)

\* the position behind the match of the pattern at i, 0 if there is none
MatchEnd(keyword, kind, s, i) ==
    IF OccursAt(s, keyword, i)
    THEN LET b == SkipSpace(s, i + Len(keyword))
         IN  IF b > i + Len(keyword)
             THEN OperandEnd(kind, s, b, SkipNonSpace(s, b))
             ELSE 0
    ELSE 0

\* String.prototype.replace with a g pattern, from position i on
RECURSIVE ReplaceFrom(_, _, _, _, _)
ReplaceFrom(keyword, kind, by, s, i) ==
    IF i > Len(s) THEN <<>>
    ELSE IF MatchEnd(keyword, kind, s, i) > 0
    THEN by \o ReplaceFrom(keyword, kind, by, s, MatchEnd(keyword, kind, s, i))
    ELSE <<s[i]>> \o ReplaceFrom(keyword, kind, by, s, i + 1)

ColumnIs == <<SP,"c","o","l","u","m","n",SP,"=",SP>>
ValuePlaceholder == <<QUOTE,"v","a","l","u","e",QUOTE>>
NumberPlaceholder == <<"1","2","3">>

sanitizeQuery(query) ==
    LET a == ReplaceFrom(WHERE, "quoted", WHERE \o ColumnIs \o ValuePlaceholder, query, 1)
        b == ReplaceFrom(AND, "quoted", AND \o ColumnIs \o ValuePlaceholder, a, 1)
        c == ReplaceFrom(WHERE, "number", WHERE \o ColumnIs \o NumberPlaceholder, b, 1)
    IN  ReplaceFrom(AND, "number", AND \o ColumnIs \o NumberPlaceholder, c, 1)

\* crypto.createHash('md5').update(text).digest('hex'), taken to be free of
\* collisions on the texts of the model
md5(text) == <<"md5">> \o text

\* the statements of pg_stat_statements: one or two equality comparisons,
\* each with one of the literals
SelectWhere == <<"S","E","L","E","C","T",SP,"1",SP>> \o WHERE \o <<SP,"x",SP,"=",SP>>
AndAlso == <<SP>> \o AND \o <<SP,"y",SP,"=",SP>>
\* a string that holds a comparison on its second line
TwoLineString ==
    <<QUOTE,"a",SP>> \o WHERE \o <<NL,"y",SP,"=",SP,"5",QUOTE>>
Literals ==
    { <<"5">>, <<"7">>, <<"5",".","7">>, <<QUOTE,"v",QUOTE>>, TwoLineString }
RawQueries ==
    {SelectWhere \o l : l \in Literals}
    \cup {SelectWhere \o l \o AndAlso \o l : l \in Literals}
DefaultRows ==
    [i \in 1..NumQueries |->
        SelectWhere \o (IF i = 1 THEN <<"5">> ELSE <<QUOTE,"v",QUOTE>>)]

(***************************************************************************)
(* State.                                                                  *)
(***************************************************************************)
Jobs == {"runSchemaSync", "runQueryLogSync"}
Pipeline == "generateSqlFromQuestion"
Procs == Jobs \cup {Pipeline}

VARIABLES
    \* --- one invocation of generateSqlFromQuestion ---
    variant,          \* which version of the module is deployed
    pc,               \* the call the invocation awaits, or how it ended
    calls,            \* the stages entered and calls issued, in order
    pending,          \* number of the invocation's calls in flight
    failedAt,         \* Len(calls) when a call rejected, 0 while none has
    queryArgs,        \* the arguments of the vector-store queries issued
    relevantTables,   \* the metadata of the matches of the table-index query
    rerankResponse,   \* the completion of the re-rank call
    finalTableSchemas,\* the table schemas put into the generation prompt
    finalResponse,    \* the completion of the generation call
    parser,           \* the parser's state
    explanation,      \* the explanation the parser captured
    sqlQuery,         \* the candidate query
    validatorArgs,    \* the arguments validateSqlSyntax was called with
    validationResult, \* what validateSqlSyntax returned
    returned,         \* the value the invocation resolved with
    thrown,           \* the error the invocation rejected with
    \* --- the connection pool ---
    checkedOut,       \* number of connections checked out of dbPool
    client,           \* per process: its connection, "none", "held" or "released"
    releases,         \* per process: number of client.release() calls
    \* --- the two jobs ---
    jpc,              \* per job: the call it awaits, or "idle" / "done"
    summ,             \* per job and item: state of its summarization call
    cursor,           \* per job: the item the upsert loop is at
    jcalls,           \* per job: the calls issued, in order
    outcome,          \* per job: "none", "completed" or "logged" (caught)
    escaped,          \* per job: an error left the job's function
    index,            \* per job: the ids stored in the index it writes
    store,            \* per job: the metadata stored in that index, by id
    upserts,          \* per job: the items its run has upserted, in order
    runs,             \* per job: how its earlier runs ended
    enrichedSchema,   \* the merged table records of runSchemaSync
    sanitizedQueries, \* the sanitized statements of runQueryLogSync
    \* --- what the jobs read ---
    tableMetadata,    \* the parsed content of table-standard.json
    rows              \* the statements of pg_stat_statements

rerankVars == <<rerankResponse, finalTableSchemas>>
pipeVars == <<variant, pc, calls, pending, failedAt, queryArgs, relevantTables,
              rerankVars, finalResponse, parser, explanation, sqlQuery,
              validatorArgs, validationResult, returned, thrown>>
poolVars == <<checkedOut, client, releases>>
inputVars == <<tableMetadata, rows>>
recordVars == <<enrichedSchema, sanitizedQueries>>
jobVars == <<jpc, summ, cursor, jcalls, outcome, escaped, index, store,
             upserts, runs, recordVars, inputVars>>
vars == <<pipeVars, poolVars, jobVars>>

Items(j) == IF j = "runSchemaSync" THEN 1..NumTables ELSE 1..NumQueries

NoResult == [called |-> FALSE, isValid |-> FALSE, error |-> ""]
NoValue == [set |-> FALSE, value |-> <<>>]
NoError == [set |-> FALSE, message |-> "", explanation |-> <<>>, cause |-> ""]

\* the process has started: nothing has run, the indexes hold what stored
\* and the jobs will read the file and the statements given
InitWith(stored, file, statements) ==
    /\ variant \in {"tagged", "untagged"}
    /\ pc = "idle"
    /\ calls = <<>>
    /\ pending = 0
    /\ failedAt = 0
    /\ queryArgs = <<>>
    /\ relevantTables = <<>>
    /\ rerankResponse = <<>>
    /\ finalTableSchemas = <<>>
    /\ finalResponse = <<>>
    /\ parser = "AWAITING"
    /\ explanation = <<>>
    /\ sqlQuery = <<>>
    /\ validatorArgs = <<>>
    /\ validationResult = NoResult
    /\ returned = NoValue
    /\ thrown = NoError
    /\ checkedOut = 0
    /\ client = [p \in Procs |-> "none"]
    /\ releases = [p \in Procs |-> 0]
    /\ jpc = [j \in Jobs |-> "idle"]
    /\ summ = [j \in Jobs |-> [i \in Items(j) |-> "none"]]
    /\ cursor = [j \in Jobs |-> 0]
    /\ jcalls = [j \in Jobs |-> <<>>]
    /\ outcome = [j \in Jobs |-> "none"]
    /\ escaped = [j \in Jobs |-> FALSE]
    /\ index = [j \in Jobs |-> DOMAIN stored[j]]
    /\ store = stored
    /\ upserts = [j \in Jobs |-> <<>>]
    /\ runs = [j \in Jobs |-> <<>>]
    /\ enrichedSchema = <<>>
    /\ sanitizedQueries = <<>>
    /\ tableMetadata = file
    /\ rows = statements

\* both indexes empty
Empty == [j \in Jobs |-> <<>>]
Init == InitWith(Empty, DefaultMetadataFile, DefaultRows)

(***************************************************************************)
(* The connection pool: dbPool.connect() and client.release().             *)
(***************************************************************************)
\* try { ... } finally { client.release() }: the paths that release
ReleasedOnSuccessOnly(path) == path = "ok"
ReleasedOn(path) == path \in {"ok", "error"}

Acquire(p) ==
    /\ checkedOut' = checkedOut + 1
    /\ client' = [client EXCEPT ![p] = "held"]
    /\ UNCHANGED releases

Release(p, path) ==
    IF ReleasedOn(path)
    THEN /\ checkedOut' = checkedOut - 1
         /\ client' = [client EXCEPT ![p] = "released"]
         /\ releases' = [releases EXCEPT ![p] = @ + 1]
    ELSE UNCHANGED poolVars

(***************************************************************************)
(* generateSqlFromQuestion.                                                *)
(***************************************************************************)
\* topK of the query on the table index
TopKTables == 5

\* error messages of the external calls
CallErrors == {"call failed"}
DbErrors == {"syntax error at or near", "relation does not exist"}

\* generateSqlFromQuestion has no try / catch: a rejected await rejects it
PropagatesAfterRetrieval(stage) == stage \notin {"embedQuery", "tableQuery"}
Propagates(stage) == TRUE

\* if (!validationResult.isValid) throw ...; return sqlQuery
ReturnsAnyQuery(result) == TRUE
ReturnsQuery(result) == result.isValid

\* throw new Error('Generated SQL is invalid: ' + validationResult.error)
InvalidFailure(result) ==
    [set |-> TRUE, message |-> "Generated SQL is invalid: ",
     explanation |-> <<>>, cause |-> result.error]

\* throw new Error('LLM explanation: ' + explanation)
ExplanationFailureBare(text) ==
    [set |-> TRUE, message |-> "LLM explanation: ",
     explanation |-> <<>>, cause |-> ""]
ExplanationFailure(text) ==
    [set |-> TRUE, message |-> "LLM explanation: ",
     explanation |-> text, cause |-> ""]

\* throw new Error('Invalid response format from LLM. No ... tag found.')
FormatFailure ==
    [set |-> TRUE,
     message |-> "Invalid response format from LLM. No <@query@> or <@explanation@> tag found.",
     explanation |-> <<>>, cause |-> ""]

\* the error of a rejected call, as it leaves the function
CallFailure(cause) ==
    [set |-> TRUE, message |-> "", explanation |-> <<>>, cause |-> cause]

\* catch (error) { return { isValid: false, error: error.message } }
DryRunCaughtGeneric(err) ==
    [called |-> TRUE, isValid |-> FALSE, error |-> "invalid"]
DryRunCaught(err) == [called |-> TRUE, isValid |-> FALSE, error |-> err]

\* the matches a query with topK = k can give on an index holding ids
RECURSIVE Orderings(_)
Orderings(ids) ==
    IF ids = {} THEN {<<>>}
    ELSE {<<>>} \cup UNION {{<<i>> \o o : o \in Orderings(ids \ {i})} : i \in ids}
Matches(ids, k) == {m \in Orderings(ids) : Len(m) <= k}

\* rerankResponse.split(',').map(t => t.trim())
RECURSIVE split(_, _)
split(s, separator) ==
    IF IndexOf(s, separator) = 0 THEN <<s>>
    ELSE <<SubSeq(s, 1, IndexOf(s, separator) - 1)>>
         \o split(SubSeq(s, IndexOf(s, separator) + Len(separator), Len(s)), separator)
topTableNames(response) ==
    [k \in 1..Len(split(response, <<",">>)) |-> trim(split(response, <<",">>)[k])]

\* relevantTables.filter(t => topTableNames.includes(t.name))
SelectedInAnswerOrder(tables, names) ==
    LET at(k) == CHOOSE i \in 1..Len(tables) : tables[i]["name"] = names[k]
        named == SelectSeq([k \in 1..Len(names) |-> k],
                           LAMBDA k : \E i \in 1..Len(tables) : tables[i]["name"] = names[k])
    IN  [k \in 1..Len(named) |-> tables[at(named[k])]]
Selected(tables, names) ==
    SelectSeq(tables, LAMBDA t : \E k \in 1..Len(names) : names[k] = t["name"])

\* .map(t => 'Table Name: ' + t.name + '\nColumns: ' + t.schema).join('\n\n')
TableHeader == <<"T","a","b","l","e",SP,"N","a","m","e",":",SP>>
ColumnsHeader == <<NL,"C","o","l","u","m","n","s",":",SP>>
RECURSIVE SchemasOf(_)
SchemasOf(tables) ==
    IF tables = <<>> THEN <<>>
    ELSE TableHeader \o Head(tables)["name"] \o ColumnsHeader \o Head(tables)["schema"]
         \o (IF Len(tables) > 1 THEN <<NL, NL>> ELSE <<>>)
         \o SchemasOf(Tail(tables))

\* a rejected call rejects the invocation
PipelineRejects(cause) ==
    /\ pc' = "failed"
    /\ pending' = pending - 1
    /\ failedAt' = Len(calls)
    /\ thrown' = CallFailure(cause)
    /\ UNCHANGED <<variant, calls, queryArgs, relevantTables, rerankVars, finalResponse,
                   parser, explanation, sqlQuery, validatorArgs,
                   validationResult, returned, poolVars, jobVars>>

Start ==
    /\ pc = "idle"
    /\ pc' = "embedQuery"
    /\ calls' = <<"embedQuery">>
    /\ pending' = pending + 1
    /\ UNCHANGED <<variant, failedAt, queryArgs, relevantTables, rerankVars, finalResponse,
                   parser, explanation, sqlQuery, validatorArgs,
                   validationResult, returned, thrown, poolVars, jobVars>>

\* questionEmbedding is there: pineconeIndex.query({ topK: 5, ... })
EmbedReturn ==
    /\ pc = "embedQuery"
    /\ \/ /\ pc' = "tableQuery"
          /\ calls' = Append(calls, "tableQuery")
          /\ queryArgs' = Append(queryArgs, [index |-> "tables", topK |-> TopKTables])
          /\ pending' = (pending - 1) + 1
          /\ UNCHANGED <<variant, failedAt, relevantTables, rerankVars, finalResponse,
                         parser, explanation, sqlQuery, validatorArgs,
                         validationResult, returned, thrown, poolVars, jobVars>>
       \/ \E e \in CallErrors :
            IF Propagates("embedQuery")
            THEN PipelineRejects(e)
            ELSE /\ pc' = "tableQuery"
                 /\ calls' = Append(calls, "tableQuery")
                 /\ queryArgs' = Append(queryArgs, [index |-> "tables", topK |-> TopKTables])
                 /\ failedAt' = Len(calls)
                 /\ UNCHANGED <<variant, pending, relevantTables, rerankVars, finalResponse,
                                parser, explanation, sqlQuery, validatorArgs,
                                validationResult, returned, thrown, poolVars, jobVars>>

\* queryResults is there: relevantTables, then llm.invoke(rerankPrompt)
QueryReturn ==
    /\ pc = "tableQuery"
    /\ \/ \E m \in Matches(index["runSchemaSync"], queryArgs[Len(queryArgs)].topK) :
            /\ relevantTables' = [k \in 1..Len(m) |-> store["runSchemaSync"][m[k]]]
            /\ pc' = "rerank"
            /\ calls' = Append(calls, "rerank")
            /\ pending' = (pending - 1) + 1
            /\ UNCHANGED <<variant, failedAt, queryArgs, rerankVars, finalResponse,
                           parser, explanation, sqlQuery, validatorArgs,
                           validationResult, returned, thrown, poolVars, jobVars>>
       \/ \E e \in CallErrors :
            IF Propagates("tableQuery")
            THEN PipelineRejects(e)
            ELSE /\ pc' = "rerank"
                 /\ calls' = Append(calls, "rerank")
                 /\ failedAt' = Len(calls)
                 /\ UNCHANGED <<variant, pending, queryArgs, relevantTables, rerankVars,
                                finalResponse, parser, explanation, sqlQuery,
                                validatorArgs, validationResult, returned,
                                thrown, poolVars, jobVars>>

\* rerankResponse is r: topTableNames, finalTableSchemas, finalPrompt, then
\* llm.invoke(finalPrompt)
RerankReturn(r) ==
    /\ pc = "rerank"
    /\ rerankResponse' = r
    /\ finalTableSchemas' = SchemasOf(Selected(relevantTables, topTableNames(r)))
    /\ pc' = "generate"
    /\ calls' = Append(calls, "generate")
    /\ pending' = (pending - 1) + 1
    /\ UNCHANGED <<variant, failedAt, queryArgs, relevantTables,
                   finalResponse, parser, explanation, sqlQuery,
                   validatorArgs, validationResult, returned, thrown,
                   poolVars, jobVars>>

RerankFails ==
    /\ pc = "rerank"
    /\ \E e \in CallErrors :
            IF Propagates("rerank")
            THEN PipelineRejects(e)
            ELSE /\ pc' = "generate"
                 /\ calls' = Append(calls, "generate")
                 /\ failedAt' = Len(calls)
                 /\ UNCHANGED <<variant, pending, queryArgs, relevantTables, rerankVars,
                                finalResponse, parser, explanation, sqlQuery,
                                validatorArgs, validationResult, returned,
                                thrown, poolVars, jobVars>>

\* validateSqlSyntax(q) up to its first await, called with cs the calls so
\* far: the keyword gate answers at once, or dbPool.connect() is issued
EnterValidator(q, cs) ==
    /\ sqlQuery' = q
    /\ validatorArgs' = Append(validatorArgs, q)
    /\ IF HasForbiddenKeyword(q)
       THEN LET result == [called |-> TRUE, isValid |-> FALSE, error |-> KeywordError]
            IN  /\ validationResult' = result
                /\ calls' = cs \o <<"validate">>
                /\ pending' = pending - 1
                /\ IF ReturnsQuery(result)
                   THEN /\ pc' = "returned"
                        /\ returned' = [set |-> TRUE, value |-> q]
                        /\ UNCHANGED thrown
                   ELSE /\ pc' = "failed"
                        /\ thrown' = InvalidFailure(result)
                        /\ UNCHANGED returned
       ELSE /\ calls' = cs \o <<"validate", "connect">>
            /\ pending' = (pending - 1) + 1
            /\ pc' = "connect"
            /\ UNCHANGED <<validationResult, returned, thrown>>

\* finalResponse is there: parse it (tagged) or clean it (untagged), then
\* validate the candidate query
GenerateReturn(r) ==
    /\ pc = "generate"
    /\ finalResponse' = r
    /\ IF variant = "tagged"
       THEN LET parsed == ParseResponse(r)
            IN  /\ parser' = parsed.state
                /\ IF parsed.state = "QUERY_FOUND"
                   THEN /\ EnterValidator(parsed.text, Append(calls, "parse"))
                        /\ UNCHANGED explanation
                   ELSE /\ calls' = Append(calls, "parse")
                        /\ pending' = pending - 1
                        /\ pc' = "failed"
                        /\ explanation' = parsed.text
                        /\ thrown' = IF parsed.state = "EXPLANATION_FOUND"
                                     THEN ExplanationFailure(parsed.text)
                                     ELSE FormatFailure
                        /\ UNCHANGED <<sqlQuery, validatorArgs,
                                       validationResult, returned>>
       ELSE /\ EnterValidator(CleanResponse(r), calls)
            /\ UNCHANGED <<parser, explanation>>
    /\ UNCHANGED <<variant, failedAt, queryArgs, relevantTables, rerankVars, poolVars, jobVars>>

GenerateFails ==
    /\ pc = "generate"
    /\ \E e \in CallErrors :
         IF Propagates("generate")
         THEN PipelineRejects(e)
         ELSE /\ failedAt' = Len(calls)
              /\ pending' = pending - 1
              /\ EnterValidator(<<>>, calls)
              /\ UNCHANGED <<variant, queryArgs, relevantTables, rerankVars, finalResponse,
                             parser, explanation, poolVars, jobVars>>

\* const client = await dbPool.connect(), outside the try: then
\* client.query('EXPLAIN ' + sqlQuery) is issued
ConnectReturn ==
    /\ pc = "connect"
    /\ \/ /\ Acquire(Pipeline)
          /\ pc' = "explain"
          /\ calls' = Append(calls, "explain")
          /\ pending' = (pending - 1) + 1
          /\ UNCHANGED <<variant, failedAt, queryArgs, relevantTables, rerankVars,
                         finalResponse, parser, explanation, sqlQuery,
                         validatorArgs, validationResult, returned, thrown,
                         jobVars>>
       \/ \E e \in CallErrors :
            /\ pc' = "failed"
            /\ pending' = pending - 1
            /\ failedAt' = Len(calls)
            /\ thrown' = CallFailure(e)
            /\ UNCHANGED <<variant, calls, queryArgs, relevantTables, rerankVars,
                           finalResponse, parser, explanation, sqlQuery,
                           validatorArgs, validationResult, returned,
                           poolVars, jobVars>>

\* the dry run is over: return { isValid: true }, or the catch; the finally;
\* then generateSqlFromQuestion returns the query or throws
ExplainReturn ==
    /\ pc = "explain"
    /\ \E path \in {"ok", "error"}, err \in DbErrors :
         LET result == IF path = "ok"
                       THEN [called |-> TRUE, isValid |-> TRUE, error |-> ""]
                       ELSE DryRunCaught(err)
         IN  /\ Release(Pipeline, path)
             /\ validationResult' = result
             /\ pending' = pending - 1
             /\ IF ReturnsQuery(result)
                THEN /\ pc' = "returned"
                     /\ returned' = [set |-> TRUE, value |-> sqlQuery]
                     /\ UNCHANGED thrown
                ELSE /\ pc' = "failed"
                     /\ thrown' = InvalidFailure(result)
                     /\ UNCHANGED returned
    /\ UNCHANGED <<variant, calls, failedAt, queryArgs, relevantTables, rerankVars,
                   finalResponse, parser, explanation, sqlQuery, validatorArgs,
                   jobVars>>

\* the answers of the re-rank call: names of tables, retrieved or not,
\* commas and blanks
NamePieces == TableNames \cup {UnknownName, <<",">>, <<SP>>}
RerankAnswers ==
    {Flatten(fs) : fs \in UNION {[1..k -> NamePieces] : k \in 0..MaxNames}}
\* the answer that names the first table
SystemRerankAnswers == {TableName(1)}

\* the completion of the re-rank call is one of rs
RerankReturns(rs) ==
    /\ pc = "rerank"
    /\ \E r \in rs : RerankReturn(r)

\* the completion of the generation call is one of rs
GenerateReturns(rs) ==
    /\ pc = "generate"
    /\ \E r \in rs : GenerateReturn(r)

(***************************************************************************)
(* runSchemaSync and runQueryLogSync.  Both are: read rows over a pooled   *)
(* connection (getDatabaseSchema, fetchRecentQueries), summarize every     *)
(* item with one llm.invoke each under Promise.all (generateSummaries,     *)
(* summarizeQueries), then embed and upsert the items one after the other  *)
(* (upsertToPinecone, embedAndStoreQueries), all inside one try / catch.   *)
(* runSchemaSync reads and parses the metadata file between the two.       *)
(***************************************************************************)
\* the steps the try block of the job covers
InTryAfterFetch(j, step) == step \notin {"connect", "query"}
InTry(j, step) == TRUE

\* getDatabaseSchema and generateSummaries: { ...table, summary }
Summarized(i) ==
    [name |-> TableName(i), schema |-> ColumnSchema(i),
     summary |-> Summary(TableName(i))]

\* id: table.name, and the md5 of intent.sanitizedQuery
EntryIdPerRun(j, i) ==
    <<Digit[Len(runs[j]) + 1]>>
    \o (IF j = "runSchemaSync" THEN enrichedSchema[i]["name"] ELSE sanitizedQueries[i])
EntryId(j, i) ==
    IF j = "runSchemaSync"
    THEN enrichedSchema[i]["name"]
    ELSE md5(sanitizedQueries[i])

\* metadata of the record upserted for item i
EntryMetadata(j, i) ==
    IF j = "runSchemaSync"
    THEN TableMetadata(enrichedSchema[i])
    ELSE [summary |-> Summary(sanitizedQueries[i]), query |-> sanitizedQueries[i]]

\* index.upsert([{ id, values, metadata }]): the entry of that id is written
Upsert(entries, id, metadata) ==
    [k \in DOMAIN entries \cup {id} |-> IF k = id THEN metadata ELSE entries[k]]

\* what the catch block leaves of the index: it only logs
Kept(ids) == ids

\* Promise.all over the calls of states st is fulfilled
AnyFulfilled(st) == \E k \in DOMAIN st : st[k] = "ok"
AllFulfilled(st) == \A k \in DOMAIN st : st[k] = "ok"

\* an error thrown at step ends the run: caught and logged, or let out
JobFails(j, step) ==
    /\ jpc' = [jpc EXCEPT ![j] = "done"]
    /\ IF InTry(j, step)
       THEN /\ outcome' = [outcome EXCEPT ![j] = "logged"]
            /\ index' = [index EXCEPT ![j] = Kept(@)]
            /\ UNCHANGED escaped
       ELSE /\ escaped' = [escaped EXCEPT ![j] = TRUE]
            /\ UNCHANGED <<outcome, index>>

\* the upsert loop is at item i: embeddings.embedQuery, or the loop is over
LoopAt(j, i) ==
    IF i \in Items(j)
    THEN /\ jpc' = [jpc EXCEPT ![j] = "embed"]
         /\ jcalls' = [jcalls EXCEPT ![j] = Append(@, "embed")]
         /\ UNCHANGED outcome
    ELSE /\ jpc' = [jpc EXCEPT ![j] = "done"]
         /\ outcome' = [outcome EXCEPT ![j] = "completed"]
         /\ UNCHANGED jcalls

JobStart(j) ==
    /\ jpc[j] = "idle"
    /\ jpc' = [jpc EXCEPT ![j] = "connect"]
    /\ jcalls' = [jcalls EXCEPT ![j] = Append(@, "connect")]
    /\ UNCHANGED <<summ, cursor, outcome, escaped, index, store, upserts, runs,
                   recordVars, inputVars, poolVars, pipeVars>>

\* the scheduler starts the job again, its last run being over
JobRestart(j) ==
    /\ jpc[j] = "done"
    /\ Len(runs[j]) + 1 < MaxRuns
    /\ runs' = [runs EXCEPT ![j] = Append(@, IF escaped[j] THEN "escaped" ELSE outcome[j])]
    /\ jpc' = [jpc EXCEPT ![j] = "connect"]
    /\ jcalls' = [jcalls EXCEPT ![j] = <<"connect">>]
    /\ summ' = [summ EXCEPT ![j] = [i \in Items(j) |-> "none"]]
    /\ cursor' = [cursor EXCEPT ![j] = 0]
    /\ outcome' = [outcome EXCEPT ![j] = "none"]
    /\ upserts' = [upserts EXCEPT ![j] = <<>>]
    /\ IF j = "runSchemaSync"
       THEN enrichedSchema' = <<>> /\ UNCHANGED sanitizedQueries
       ELSE sanitizedQueries' = <<>> /\ UNCHANGED enrichedSchema
    /\ UNCHANGED <<escaped, index, store, inputVars, poolVars, pipeVars>>

\* const client = await dbPool.connect(): then client.query(...)
JobConnectReturn(j) ==
    /\ jpc[j] = "connect"
    /\ \/ /\ Acquire(j)
          /\ jpc' = [jpc EXCEPT ![j] = "query"]
          /\ jcalls' = [jcalls EXCEPT ![j] = Append(@, "query")]
          /\ UNCHANGED <<summ, cursor, outcome, escaped, index>>
       \/ /\ JobFails(j, "connect")
          /\ UNCHANGED <<summ, cursor, jcalls, poolVars>>
    /\ UNCHANGED <<store, upserts, runs, recordVars, inputVars, pipeVars>>

\* the rows are there, or the query failed; the finally; sanitizeQueries
\* in runQueryLogSync; then one llm.invoke per item, all issued before the
\* first is awaited
JobQueryReturn(j) ==
    /\ jpc[j] = "query"
    /\ \/ /\ Release(j, "ok")
          /\ jpc' = [jpc EXCEPT ![j] = "summarize"]
          /\ summ' = [summ EXCEPT ![j] = [i \in Items(j) |-> "pending"]]
          /\ jcalls' = [jcalls EXCEPT ![j] = @ \o [i \in Items(j) |-> "invoke"]]
          /\ IF j = "runQueryLogSync"
             THEN sanitizedQueries' = [i \in Items(j) |-> sanitizeQuery(rows[i])]
             ELSE UNCHANGED sanitizedQueries
          /\ UNCHANGED <<cursor, outcome, escaped, index>>
       \/ /\ Release(j, "error")
          /\ JobFails(j, "query")
          /\ UNCHANGED <<summ, cursor, jcalls, sanitizedQueries>>
    /\ UNCHANGED <<store, upserts, runs, enrichedSchema, inputVars, pipeVars>>

\* one summarization call is over.  Promise.all rejects with the first
\* rejection and resolves with the last success; calls still in flight
\* after a rejection end without effect.
JobSummaryReturn(j, i) ==
    /\ summ[j][i] = "pending"
    /\ \/ /\ summ' = [summ EXCEPT ![j][i] = "ok"]
          /\ IF jpc[j] = "summarize" /\ AllFulfilled([summ[j] EXCEPT ![i] = "ok"])
             THEN IF j = "runSchemaSync"
                  THEN /\ jpc' = [jpc EXCEPT ![j] = "readFile"]
                       /\ jcalls' = [jcalls EXCEPT ![j] = Append(@, "readFile")]
                       /\ UNCHANGED <<cursor, outcome>>
                  ELSE /\ cursor' = [cursor EXCEPT ![j] = 1]
                       /\ LoopAt(j, 1)
             ELSE UNCHANGED <<jpc, cursor, jcalls, outcome>>
          /\ UNCHANGED <<escaped, index>>
       \/ /\ summ' = [summ EXCEPT ![j][i] = "failed"]
          /\ IF jpc[j] = "summarize"
             THEN JobFails(j, "summarize")
             ELSE UNCHANGED <<jpc, outcome, escaped, index>>
          /\ UNCHANGED <<cursor, jcalls>>
    /\ UNCHANGED <<store, upserts, runs, recordVars, inputVars, poolVars, pipeVars>>

\* readFile(jsonPath) and JSON.parse(fileContent), then the merge and the
\* first turn of the upsert loop
JobReadFileReturn(j) ==
    /\ jpc[j] = "readFile"
    /\ \/ /\ enrichedSchema' =
                [i \in Items(j) |->
                    Merge(Summarized(i), EntryOf(tableMetadata, TableName(i)))]
          /\ cursor' = [cursor EXCEPT ![j] = 1]
          /\ LoopAt(j, 1)
          /\ UNCHANGED <<escaped, index>>
       \/ \E step \in {"readFile", "JSON.parse"} :
            /\ JobFails(j, step)
            /\ UNCHANGED <<cursor, jcalls, enrichedSchema>>
    /\ UNCHANGED <<summ, store, upserts, runs, sanitizedQueries, inputVars,
                   poolVars, pipeVars>>

\* the vector of the item is there: index.upsert([...])
JobEmbedReturn(j) ==
    /\ jpc[j] = "embed"
    /\ \/ /\ jpc' = [jpc EXCEPT ![j] = "upsert"]
          /\ jcalls' = [jcalls EXCEPT ![j] = Append(@, "upsert")]
          /\ UNCHANGED <<cursor, outcome, escaped, index>>
       \/ /\ JobFails(j, "embed")
          /\ UNCHANGED <<cursor, jcalls>>
    /\ UNCHANGED <<summ, store, upserts, runs, recordVars, inputVars,
                   poolVars, pipeVars>>

\* the upsert is over: the next item, or the end of the loop
JobUpsertReturn(j) ==
    /\ jpc[j] = "upsert"
    /\ \/ /\ index' = [index EXCEPT ![j] = @ \cup {EntryId(j, cursor[j])}]
          /\ store' = [store EXCEPT ![j] =
                          Upsert(@, EntryId(j, cursor[j]), EntryMetadata(j, cursor[j]))]
          /\ upserts' = [upserts EXCEPT ![j] = Append(@, cursor[j])]
          /\ cursor' = [cursor EXCEPT ![j] = @ + 1]
          /\ LoopAt(j, cursor[j] + 1)
          /\ UNCHANGED escaped
       \/ /\ JobFails(j, "upsert")
          /\ UNCHANGED <<cursor, jcalls, store, upserts>>
    /\ UNCHANGED <<summ, runs, recordVars, inputVars, poolVars, pipeVars>>

(***************************************************************************)
(* Specifications.                                                         *)
(***************************************************************************)
NextPipeline ==
    \/ Start
    \/ EmbedReturn
    \/ QueryReturn
    \/ RerankReturns(SystemRerankAnswers)
    \/ RerankFails
    \/ GenerateReturns(Responses)
    \/ GenerateFails
    \/ ConnectReturn
    \/ ExplainReturn

NextJobs ==
    \E j \in Jobs :
        \/ JobStart(j)
        \/ JobConnectReturn(j)
        \/ JobQueryReturn(j)
        \/ \E i \in Items(j) : JobSummaryReturn(j, i)
        \/ JobReadFileReturn(j)
        \/ JobEmbedReturn(j)
        \/ JobUpsertReturn(j)

Next ==
    \/ Start
    \/ EmbedReturn
    \/ QueryReturn
    \/ RerankReturns(SystemRerankAnswers)
    \/ RerankFails
    \/ GenerateReturns(SystemResponses)
    \/ GenerateFails
    \/ ConnectReturn
    \/ ExplainReturn
    \/ NextJobs

\* one request and one run of each job, interleaved
Spec == Init /\ [][Next]_vars

\* one request alone, over all completions of up to MaxFrags fragments
SpecPipeline == Init /\ [][NextPipeline]_vars

NextValidator ==
    \/ Start
    \/ EmbedReturn
    \/ QueryReturn
    \/ RerankReturns(SystemRerankAnswers)
    \/ RerankFails
    \/ GenerateReturns(QueryResponses)
    \/ GenerateFails
    \/ ConnectReturn
    \/ ExplainReturn

\* one request alone, over the completions that carry a candidate query
SpecValidator == Init /\ [][NextValidator]_vars

\* the index of the tables as a completed run of runSchemaSync leaves it
Synced(file) ==
    [j \in Jobs |->
        IF j = "runSchemaSync"
        THEN [n \in TableNames |->
                 LET i == CHOOSE k \in 1..NumTables : TableName(k) = n
                 IN  TableMetadata(Merge(Summarized(i), EntryOf(file, n)))]
        ELSE <<>>]

NextRerank ==
    \/ Start
    \/ EmbedReturn
    \/ QueryReturn
    \/ RerankReturns(RerankAnswers)
    \/ RerankFails
    \/ GenerateReturns({QueryTag \o <<"s","q","l">>})
    \/ GenerateFails
    \/ ConnectReturn
    \/ ExplainReturn

\* one request alone on a synchronized table index, over all answers of
\* the re-rank call of up to MaxNames pieces
SpecRerank ==
    InitWith(Synced(DefaultMetadataFile), DefaultMetadataFile, DefaultRows)
    /\ [][NextRerank]_vars

NextSchemaSync ==
    \/ JobStart("runSchemaSync")
    \/ JobRestart("runSchemaSync")
    \/ JobConnectReturn("runSchemaSync")
    \/ JobQueryReturn("runSchemaSync")
    \/ \E i \in Items("runSchemaSync") : JobSummaryReturn("runSchemaSync", i)
    \/ JobReadFileReturn("runSchemaSync")
    \/ JobEmbedReturn("runSchemaSync")
    \/ JobUpsertReturn("runSchemaSync")

\* up to MaxRuns runs of runSchemaSync, one after the other, over all
\* metadata files
SpecSchemaSync ==
    (\E file \in MetadataFiles : InitWith(Empty, file, DefaultRows))
    /\ [][NextSchemaSync]_vars

NextQueryLog ==
    \/ JobStart("runQueryLogSync")
    \/ JobRestart("runQueryLogSync")
    \/ JobConnectReturn("runQueryLogSync")
    \/ JobQueryReturn("runQueryLogSync")
    \/ \E i \in Items("runQueryLogSync") : JobSummaryReturn("runQueryLogSync", i)
    \/ JobEmbedReturn("runQueryLogSync")
    \/ JobUpsertReturn("runQueryLogSync")

\* up to MaxRuns runs of runQueryLogSync, one after the other, over all
\* lists of logged statements
SpecQueryLog ==
    (\E statements \in [1..NumQueries -> RawQueries] :
        InitWith(Empty, DefaultMetadataFile, statements))
    /\ [][NextQueryLog]_vars

(***************************************************************************)
(* Properties.                                                             *)
(***************************************************************************)
Has(seq, x) == \E i \in 1..Len(seq) : seq[i] = x
Count(seq, x) == Cardinality({i \in 1..Len(seq) : seq[i] = x})
IsPrefix(a, b) == Len(a) <= Len(b) /\ \A i \in 1..Len(a) : a[i] = b[i]

\* tag occurs in s; the text of s behind its first occurrence
Contains(s, tag) == \E i \in 1..Len(s) : OccursAt(s, tag, i)
FirstAt(s, tag) ==
    CHOOSE i \in 1..Len(s) :
        OccursAt(s, tag, i) /\ \A j \in 1..(i - 1) : ~OccursAt(s, tag, j)
Payload(s, tag) == SubSeq(s, FirstAt(s, tag) + Len(tag), Len(s))

\* s, lower-cased, has a forbidden keyword at i with a character of delims
\* right before it and one right behind it
KeywordBetween(s, delims) ==
    \E k \in 1..Len(forbiddenKeywords), i \in 2..Len(s) :
        /\ i + Len(forbiddenKeywords[k]) <= Len(s)
        /\ \A n \in 1..Len(forbiddenKeywords[k]) :
              LowerChar(s[i + n - 1]) = forbiddenKeywords[k][n]
        /\ s[i - 1] \in delims
        /\ s[i + Len(forbiddenKeywords[k])] \in delims

\* C1: the invocation resolves with a string only when validateSqlSyntax was
\* called on exactly that string, once, and answered isValid = true 
C1_ReturnedOnlyIfValidated ==
    returned.set =>
        /\ pc = "returned"
        /\ validatorArgs = <<returned.value>>
        /\ validationResult.called
        /\ validationResult.isValid
        /\ ~thrown.set

\* a query other than the raw completion was validated and returned
C1_Witness ==
    /\ returned.set
    /\ returned.value # <<>>
    /\ returned.value # finalResponse
    /\ validationResult.isValid

\* C2: a candidate query that, lower-cased, holds a forbidden keyword with a
\* space right before and right behind it is answered isValid = false with
\* the keyword message, and neither dbPool.connect() nor the EXPLAIN is issued
C2_KeywordRejectedWithoutDryRun ==
    \A n \in 1..Len(validatorArgs) :
        KeywordBetween(validatorArgs[n], {SP}) =>
            /\ validationResult.called
            /\ ~validationResult.isValid
            /\ validationResult.error = KeywordError
            /\ ~Has(calls, "connect")
            /\ ~Has(calls, "explain")
            /\ client[Pipeline] = "none"
            /\ checkedOut = 0
            /\ ~returned.set

\* the gate rejected a query whose keyword is not in lower case
C2_Witness ==
    /\ validatorArgs # <<>>
    /\ KeywordBetween(validatorArgs[1], {SP})
    /\ ~Has(validatorArgs[1], "d")
    /\ validationResult.called
    /\ ~validationResult.isValid
    /\ pc = "failed"

\* C3: a candidate query that holds a forbidden keyword, in any letter case,
\* between two white-space characters (space, tab or newline) is rejected by
\* the keyword gate and never reaches the dry run
C3_WhitespaceKeywordRejected ==
    \A n \in 1..Len(validatorArgs) :
        KeywordBetween(validatorArgs[n], {SP, TAB, NL}) =>
            /\ ~Has(calls, "connect")
            /\ ~Has(calls, "explain")
            /\ ~returned.set

\* C4: a connection is checked out only inside a database call, every
\* process that checked one out releases it exactly once, and when the
\* request and both jobs are over no connection is checked out
InDbCall(p) ==
    IF p = Pipeline THEN pc \in {"connect", "explain"}
    ELSE jpc[p] \in {"connect", "query"}
AllFinished ==
    /\ pc \in {"returned", "failed"}
    /\ \A j \in Jobs : jpc[j] = "done"
C4_ConnectionsScoped ==
    /\ checkedOut = Cardinality({p \in Procs : client[p] = "held"})
    /\ checkedOut <= Cardinality({p \in Procs : InDbCall(p)})
    /\ \A p \in Procs :
          /\ client[p] = "held" => InDbCall(p) /\ releases[p] = 0
          /\ client[p] = "released" => releases[p] = 1
          /\ client[p] = "none" => releases[p] = 0
    /\ AllFinished => checkedOut = 0

\* all three have held a connection, two of them left on the error path
C4_Witness ==
    /\ AllFinished
    /\ \A p \in Procs : releases[p] = 1
    /\ validationResult.called /\ ~validationResult.isValid
    /\ outcome["runSchemaSync"] = "logged"
    /\ jcalls["runSchemaSync"] = <<"connect", "query">>

\* C5, as claimed: whenever the completion holds the query tag the parser
\* ends in QUERY_FOUND with the trimmed text behind the first query tag,
\* whatever follows the tag; with the explanation tag only it ends in
\* EXPLANATION_FOUND with the trimmed text behind it; with neither tag it
\* ends in MALFORMED
C5_AnyTagDecides ==
    (variant = "tagged" /\ Has(calls, "parse")) =>
        IF Contains(finalResponse, QueryTag)
        THEN /\ parser = "QUERY_FOUND"
             /\ sqlQuery = trim(Payload(finalResponse, QueryTag))
        ELSE IF Contains(finalResponse, ExplanationTag)
        THEN /\ parser = "EXPLANATION_FOUND"
             /\ explanation = trim(Payload(finalResponse, ExplanationTag))
        ELSE parser = "MALFORMED"

\* C5, amended: a tag decides only when at least one character follows its
\* first occurrence.  The parser ends in QUERY_FOUND, with the trimmed text
\* behind the first query tag, exactly when the query tag occurs and is not
\* the end of the completion; otherwise in EXPLANATION_FOUND, with the
\* trimmed text behind the first explanation tag, exactly when the
\* explanation tag occurs and is not the end of the completion; otherwise
\* in MALFORMED
HasPayload(s, tag) == Contains(s, tag) /\ Payload(s, tag) # <<>>
C5_TagWithPayloadDecides ==
    (variant = "tagged" /\ Has(calls, "parse")) =>
        /\ parser \in {"QUERY_FOUND", "EXPLANATION_FOUND", "MALFORMED"}
        /\ IF HasPayload(finalResponse, QueryTag)
           THEN /\ parser = "QUERY_FOUND"
                /\ sqlQuery = trim(Payload(finalResponse, QueryTag))
           ELSE IF HasPayload(finalResponse, ExplanationTag)
           THEN /\ parser = "EXPLANATION_FOUND"
                /\ explanation = trim(Payload(finalResponse, ExplanationTag))
           ELSE parser = "MALFORMED"

\* a completion that ends with the query tag, behind an explanation
C5_Witness ==
    /\ variant = "tagged"
    /\ Has(calls, "parse")
    /\ Contains(finalResponse, QueryTag)
    /\ ~HasPayload(finalResponse, QueryTag)
    /\ parser = "EXPLANATION_FOUND"

\* C6: with the parser in EXPLANATION_FOUND or MALFORMED the invocation has
\* rejected, with the explanation text in the first case and with the
\* message that names both tags in the second; it returned nothing, never
\* called validateSqlSyntax and never asked the pool for a connection
C6_NoQueryFails ==
    parser \in {"EXPLANATION_FOUND", "MALFORMED"} =>
        /\ pc = "failed"
        /\ thrown.set
        /\ ~returned.set
        /\ validatorArgs = <<>>
        /\ ~validationResult.called
        /\ ~Has(calls, "validate")
        /\ ~Has(calls, "connect")
        /\ client[Pipeline] = "none"
        /\ parser = "EXPLANATION_FOUND" =>
              /\ thrown.message = "LLM explanation: "
              /\ thrown.explanation = trim(Payload(finalResponse, ExplanationTag))
        /\ parser = "MALFORMED" =>
              thrown.message =
                  "Invalid response format from LLM. No <@query@> or <@explanation@> tag found."

\* the model explained itself, and the text is in the error
C6_Witness ==
    /\ parser = "EXPLANATION_FOUND"
    /\ thrown.set
    /\ thrown.explanation = <<"s","q","l">>

\* C7: when validateSqlSyntax answers isValid = false the invocation rejects
\* with 'Generated SQL is invalid: ' followed by the validator's message,
\* which is the fixed keyword message when the gate refused the query and
\* the message of the database error when the dry run did; and once the
\* EXPLAIN is issued, the invocation ends with the validator's answer: an
\* error of the EXPLAIN never leaves validateSqlSyntax as an error
C7_InvalidSurfaces ==
    /\ (validationResult.called /\ ~validationResult.isValid) =>
          /\ pc = "failed"
          /\ ~returned.set
          /\ thrown.set
          /\ thrown.message = "Generated SQL is invalid: "
          /\ thrown.cause = validationResult.error
          /\ IF Has(calls, "explain")
             THEN validationResult.error \in DbErrors
             ELSE validationResult.error =
                      "Query contains a forbidden write-operation keyword."
    /\ (Has(calls, "explain") /\ pc \in {"returned", "failed"}) =>
          /\ validationResult.called
          /\ failedAt = 0
          /\ thrown.set => thrown.message = "Generated SQL is invalid: "

\* the dry run failed and its message reached the caller
C7_Witness ==
    /\ Has(calls, "explain")
    /\ pc = "failed"
    /\ thrown.cause = "relation does not exist"
    /\ ~validationResult.isValid

\* C8: the stages are entered in the one order embed, table-index query,
\* re-rank, generation, parse (tagged version), validate, each at most
\* once; at most one call is in flight, so none is issued before the one
\* before it is over; and a call that fails ends the invocation with no
\* further call
StageOrder ==
    IF variant = "tagged"
    THEN <<"embedQuery", "tableQuery", "rerank", "generate", "parse",
           "validate", "connect", "explain">>
    ELSE <<"embedQuery", "tableQuery", "rerank", "generate",
           "validate", "connect", "explain">>
Awaiting ==
    pc \in {"embedQuery", "tableQuery", "rerank", "generate", "connect", "explain"}
C8_StagesInOrder ==
    /\ IsPrefix(calls, StageOrder)
    /\ pending = (IF Awaiting THEN 1 ELSE 0)
    /\ Awaiting => calls # <<>> /\ calls[Len(calls)] = pc
    /\ failedAt # 0 =>
          /\ pc = "failed"
          /\ thrown.set
          /\ ~returned.set
          /\ Len(calls) = failedAt

\* the re-rank call failed: nothing was generated, parsed or validated
C8_Witness ==
    /\ pc = "failed"
    /\ failedAt = 3
    /\ calls = <<"embedQuery", "tableQuery", "rerank">>

\* C9: before the re-rank call is issued the retrieval stage has queried the
\* table index with topK = 5 and the query-intent index with topK = 3, and
\* holds at most 5 table matches
C9_BothIndexesQueried ==
    Has(calls, "rerank") =>
        /\ Has(queryArgs, [index |-> "tables", topK |-> 5])
        /\ Has(queryArgs, [index |-> "queryIntents", topK |-> 3])
        /\ Len(relevantTables) <= 5

\* C10: no error leaves a job.  A run that is over either completed or
\* logged its failure; no call is issued a second time and none after the
\* failure; and the entries upserted before a failure are in the index
JobCallsOnce(j) ==
    /\ Count(jcalls[j], "connect") <= 1
    /\ Count(jcalls[j], "query") <= 1
    /\ Count(jcalls[j], "readFile") <= 1
    /\ Count(jcalls[j], "invoke") <= Cardinality(Items(j))
    /\ Count(jcalls[j], "embed") <= Cardinality(Items(j))
    /\ Count(jcalls[j], "upsert") <= Count(jcalls[j], "embed")
C10_JobsContainFailures ==
    \A j \in Jobs :
        /\ ~escaped[j]
        /\ jpc[j] = "done" <=> outcome[j] \in {"completed", "logged"}
        /\ JobCallsOnce(j)
        /\ \A i \in Items(j) : i < cursor[j] => EntryId(j, i) \in index[j]
        /\ outcome[j] = "completed" => index[j] = {EntryId(j, i) : i \in Items(j)}

\* a job failed at the upsert of its second item: the first one is stored
C10_Witness ==
    /\ outcome["runSchemaSync"] = "logged"
    /\ cursor["runSchemaSync"] = 2
    /\ jcalls["runSchemaSync"][Len(jcalls["runSchemaSync"])] = "upsert"
    /\ index["runSchemaSync"] = {EntryId("runSchemaSync", 1)}
    /\ outcome["runQueryLogSync"] = "logged"
    /\ jcalls["runQueryLogSync"] = <<"connect">>

\* the curated entry of the i-th table, and what the table index holds of it
CuratedOf(i) == EntryOf(tableMetadata, TableName(i))
StoredTable(i) == store["runSchemaSync"][TableName(i)]
Unset(entry, key) == key \notin DOMAIN entry \/ entry[key] = ""

\* C11: a run of runSchemaSync that follows a completed run, with the
\* tables, the metadata file and the answers of the model the same, leaves
\* the table index as it was: the same ids with the same metadata, one
\* entry for each table, under the name of the table
C11_SecondRunKeepsIndex ==
    [][Has(runs["runSchemaSync"], "completed") =>
          /\ store'["runSchemaSync"] = store["runSchemaSync"]
          /\ index'["runSchemaSync"] = index["runSchemaSync"]
          /\ DOMAIN store'["runSchemaSync"] = TableNames
          /\ Cardinality(index'["runSchemaSync"]) = NumTables]_vars

\* a second run has completed behind a completed first one
C11_Witness ==
    /\ runs["runSchemaSync"] = <<"completed">>
    /\ outcome["runSchemaSync"] = "completed"
    /\ Len(upserts["runSchemaSync"]) = NumTables
    /\ DOMAIN store["runSchemaSync"] = TableNames

C13_DomainMirrorsTier ==
    \A i \in 1..NumTables :
        Has(upserts["runSchemaSync"], i) =>
            /\ Unset(CuratedOf(i), "tier") => StoredTable(i)["tier"] = "IRON"
            /\ Unset(CuratedOf(i), "domain") =>
                  StoredTable(i)["domain"] = StoredTable(i)["tier"]

\* C13, amended: the stored tier is IRON when the curated entry gives no
\* tier, and the stored domain is IRON when the entry gives no domain,
\* whatever the tier
C13_DomainDefaultsToIron ==
    \A i \in 1..NumTables :
        Has(upserts["runSchemaSync"], i) =>
            /\ Unset(CuratedOf(i), "tier") => StoredTable(i)["tier"] = "IRON"
            /\ Unset(CuratedOf(i), "domain") => StoredTable(i)["domain"] = "IRON"

\* a table with the curated tier GOLD and no curated domain is stored with
\* the domain IRON
C13_Witness ==
    \E i \in 1..NumTables :
        /\ Has(upserts["runSchemaSync"], i)
        /\ DOMAIN CuratedOf(i) = {"tier"}
        /\ StoredTable(i)["tier"] = "GOLD"
        /\ StoredTable(i)["domain"] = "IRON"

\* the statements a and b are the same but for the values of their
\* literals, both numbers or both strings
SameButLiterals(a, b) ==
    \E la, lb \in Literals :
        /\ IsDigit(la[1]) <=> IsDigit(lb[1])
        /\ \/ a = SelectWhere \o la /\ b = SelectWhere \o lb
           \/ /\ a = SelectWhere \o la \o AndAlso \o la
              /\ b = SelectWhere \o lb \o AndAlso \o lb

\* C14: every entry of the query-intent index is stored under the hash of
\* its sanitized statement, the index holds no more entries than there are
\* sanitized statements, however often the job has run, and two logged
\* statements that are the same but for the values of their literals have
\* the same id
C14_OneEntryPerStatementShape ==
    /\ \A id \in DOMAIN store["runQueryLogSync"] :
          id = md5(store["runQueryLogSync"][id]["query"])
    /\ Cardinality(DOMAIN store["runQueryLogSync"])
          <= Cardinality({sanitizeQuery(rows[i]) : i \in 1..NumQueries})
    /\ \A i, k \in DOMAIN sanitizedQueries :
          SameButLiterals(rows[i], rows[k]) =>
              EntryId("runQueryLogSync", i) = EntryId("runQueryLogSync", k)

\* C15: the sanitized statement of every logged statement is a fixed point
\* of the four replacements
C15_SanitizeIdempotent ==
    \A i \in DOMAIN sanitizedQueries :
        sanitizeQuery(sanitizedQueries[i]) = sanitizedQueries[i]

\* the names the answer s of the re-rank call lists: the stretches of s
\* between two commas or an end of s, without the white space at their ends
NamedIn(s) ==
    { trim(SubSeq(s, a, b)) :
        <<a, b>> \in { <<a, b>> \in (1..Len(s) + 1) \X (0..Len(s)) :
                        /\ a <= b + 1
                        /\ a = 1 \/ s[a - 1] = ","
                        /\ b = Len(s) \/ s[b + 1] = ","
                        /\ \A n \in a..b : s[n] # "," } }
RerankAnswered ==
    /\ Has(calls, "rerank")
    /\ pc # "rerank"
    /\ ~(pc = "failed" /\ failedAt = 3)

\* C16: once the re-rank call has answered, the generation call has been
\* issued and the table schemas of its prompt are those of the retrieved
\* tables whose name the answer lists, in the order of retrieval: none when
\* the answer lists no retrieved table, whatever other names it lists
C16_SchemasOfListedRetrievedTables ==
    RerankAnswered =>
        /\ Has(calls, "generate")
        /\ finalTableSchemas =
              SchemasOf(SelectSeq(relevantTables,
                                  LAMBDA t : t["name"] \in NamedIn(rerankResponse)))
        /\ (\A k \in 1..Len(relevantTables) :
               relevantTables[k]["name"] \notin NamedIn(rerankResponse))
              => finalTableSchemas = <<>>

\* the second table was retrieved before the first, the answer lists the
\* first and then the second: the prompt has the second table, then the
\* first
C16_Witness ==
    /\ pc = "generate"
    /\ Len(relevantTables) = 2
    /\ relevantTables[1]["name"] = TableName(2)
    /\ relevantTables[2]["name"] = TableName(1)
    /\ rerankResponse = TableName(1) \o <<",">> \o TableName(2)
    /\ finalTableSchemas = SchemasOf(relevantTables)

\* C17: in each job an embed or upsert call is issued only when all
\* summarization calls have succeeded, and none when one has failed; the
\* embed and the upsert of an item are issued only when the upserts of all
\* items before it are over, so the items are upserted in the order of the
\* input; and a run that failed in the embed or upsert of its k-th item has
\* upserted the first k-1 items and no other
C17_SummariesThenOneByOne ==
    \A j \in Jobs :
        /\ (Has(jcalls[j], "embed") \/ Has(jcalls[j], "upsert")) =>
              \A i \in Items(j) : summ[j][i] = "ok"
        /\ (\E i \in Items(j) : summ[j][i] = "failed") =>
              /\ upserts[j] = <<>>
              /\ index[j] = {}
              /\ ~Has(jcalls[j], "embed")
        /\ Count(jcalls[j], "embed") <= Len(upserts[j]) + 1
        /\ Count(jcalls[j], "upsert") <= Len(upserts[j]) + 1
        /\ Count(jcalls[j], "upsert") <= Count(jcalls[j], "embed")
        /\ \A n \in 1..Len(upserts[j]) : upserts[j][n] = n
        /\ (/\ outcome[j] = "logged"
            /\ jcalls[j] # <<>>
            /\ jcalls[j][Len(jcalls[j])] \in {"embed", "upsert"}) =>
              /\ Len(upserts[j]) = Count(jcalls[j], "embed") - 1
              /\ index[j] = {EntryId(j, i) : i \in 1..Len(upserts[j])}

\* runSchemaSync lost one of its summaries behind a good one and upserted
\* nothing; runQueryLogSync failed in the embed of its second statement,
\* the first one upserted
C17_Witness ==
    /\ \E i, k \in Items("runSchemaSync") :
          /\ summ["runSchemaSync"][i] = "ok"
          /\ summ["runSchemaSync"][k] = "failed"
    /\ outcome["runSchemaSync"] = "logged"
    /\ upserts["runSchemaSync"] = <<>>
    /\ outcome["runQueryLogSync"] = "logged"
    /\ jcalls["runQueryLogSync"][Len(jcalls["runQueryLogSync"])] = "embed"
    /\ Count(jcalls["runQueryLogSync"], "embed") = 2
    /\ upserts["runQueryLogSync"] = <<1>>

====
